---- MODULE Spec2Model ----
(***************************************************************************)
(* A model of rs-spotify-status (src/src/main.rs): the text pipeline       *)
(* remove_feat -> compose -> trim_to_length -> encode_text -> span markup, *)
(* and the control flow of main around it.                                 *)
(*                                                                         *)
(* A Rust string is modelled as a sequence of characters; a character is a *)
(* one-element TLA+ string.  Three characters stand for multi-byte UTF-8   *)
(* sequences and are named by their code point: "U+00E9" (2 bytes),        *)
(* "U+20AC" (3 bytes), "U+1F600" (4 bytes).  str::len and str slicing work *)
(* on bytes, so the byte width of each character is kept (Utf8Len).        *)
(*                                                                         *)
(* A call that can panic returns [ok |-> BOOLEAN, val |-> string].         *)
(***************************************************************************)
EXTENDS Integers, Sequences, FiniteSets, TLC

VARIABLES pc, env, config, metadata, title, contents, stdout, exit, arg, ret

vars == <<pc, env, config, metadata, title, contents, stdout, exit, arg, ret>>

(***************************************************************************)
(* Bounds of the model.                                                    *)
(***************************************************************************)
\* longest generated input of trim_to_length, in characters
MaxLen == 5
\* largest generated max_length
MaxBudget == 7
\* most pieces a generated title is made of
MaxPieces == 5
\* longest generated input of format_for_printing, in characters
MaxMarkupLen == 4

(***************************************************************************)
(* Values.                                                                 *)
(***************************************************************************)
Ok(v) == [ok |-> TRUE, val |-> v]
Panic == [ok |-> FALSE, val |-> <<>>]

Some(v) == [some |-> TRUE, val |-> v]
NoneStr == [some |-> FALSE, val |-> <<>>]
NoneInt == [some |-> FALSE, val |-> 0]
NoneBool == [some |-> FALSE, val |-> FALSE]

\* Option::unwrap_or
unwrap_or(opt, dflt) == IF opt.some THEN opt.val ELSE dflt

\* all strings of at most n characters over the alphabet A
StringsUpTo(A, n) == UNION {[1..k -> A] : k \in 0..n}

\* n copies of the character c
Rep(c, n) == [i \in 1..n |-> c]

(***************************************************************************)
(* UTF-8: byte lengths and byte-indexed slicing of str.                    *)
(***************************************************************************)
\* bytes of the UTF-8 encoding of one character
Utf8Len(c) ==
  CASE c = "U+00E9" -> 2
    [] c = "U+20AC" -> 3
    [] c = "U+1F600" -> 4
    [] OTHER -> 1

RECURSIVE ByteLen(_)
\* str::len: the length in bytes
ByteLen(s) == IF s = <<>> THEN 0 ELSE Utf8Len(Head(s)) + ByteLen(Tail(s))

\* str::is_char_boundary: 0, len, or the first byte of a character
is_char_boundary(s, k) ==
  \E i \in 0..Len(s) : ByteLen(SubSeq(s, 1, i)) = k

\* the number of characters that end at byte offset k (a char boundary)
CharsBefore(s, k) == CHOOSE i \in 0..Len(s) : ByteLen(SubSeq(s, 1, i)) = k

\* &s[..k]: panics when k is past the end or inside a character
SliceTo(s, k) ==
  IF k >= 0 /\ k <= ByteLen(s) /\ is_char_boundary(s, k)
  THEN Ok(SubSeq(s, 1, CharsBefore(s, k)))
  ELSE Panic

\* &s[k..]: panics when k is past the end or inside a character
SliceFrom(s, k) ==
  IF k >= 0 /\ k <= ByteLen(s) /\ is_char_boundary(s, k)
  THEN Ok(SubSeq(s, CharsBefore(s, k) + 1, Len(s)))
  ELSE Panic

Ellipsis == <<".", ".", ".">>

(***************************************************************************)
(* trim_to_length (main.rs 119-133).                                       *)
(*                                                                         *)
(* mid_ish - diff / 2 is a usize subtraction.  When diff / 2 > mid_ish a   *)
(* build with overflow checks panics at the subtraction; a build without   *)
(* them wraps to 2^64 + (mid_ish - diff / 2), an offset past the end of    *)
(* every string, and the slice panics.  Both builds panic, so the negative *)
(* integer stands for either outcome and SliceTo rejects it.               *)
(***************************************************************************)
CutDiff(input, max_length) == ByteLen(input) - max_length + 3
CutMid(input) == ByteLen(input) \div 2
CutLo(input, max_length) == CutMid(input) - CutDiff(input, max_length) \div 2
CutHi(input, max_length) == CutMid(input) + CutDiff(input, max_length) \div 2

trim_to_length(input, max_length) ==
  IF ByteLen(input) <= max_length
  THEN Ok(input)
  ELSE LET pre == SliceTo(input, CutLo(input, max_length))
           post == SliceFrom(input, CutHi(input, max_length))
       IN IF pre.ok /\ post.ok
          THEN Ok(pre.val \o Ellipsis \o post.val)
          ELSE Panic

(***************************************************************************)
(* The repository's own tests of trim_to_length (main.rs 77-96) are among  *)
(* the inputs, next to every string of at most MaxLen characters.          *)
(***************************************************************************)
TEST_LIMIT == 30
TEST_ABOVE == 35
TEST_SHORT == 5

TrimAlphabet == {"a", "b", ".", "U+00E9", "U+1F600"}
AsciiAlphabet == {"a", "b", "."}

TestCalls ==
  [input : {Rep("a", TEST_SHORT), Rep("a", TEST_LIMIT), Rep("a", TEST_ABOVE),
            Rep("a", TEST_ABOVE + 1)},
   max_length : {TEST_LIMIT}]

\* the variables of main, at rest while a single function is exercised
MainIdle ==
  /\ env = [bus |-> "idle"]
  /\ metadata = [got |-> FALSE]
  /\ title = <<>>
  /\ contents = <<>>
  /\ stdout = <<>>
  /\ exit = "running"

CallTrim ==
  /\ pc = "call"
  /\ ret' = trim_to_length(arg.input, arg.max_length)
  /\ pc' = "returned"
  /\ UNCHANGED <<env, config, metadata, title, contents, stdout, exit, arg>>

\* single-byte inputs, every max_length from 0
InitTrimAscii ==
  /\ pc = "call"
  /\ arg \in [input : StringsUpTo(AsciiAlphabet, MaxLen + 1), max_length : 0..MaxBudget]
             \cup TestCalls
  /\ config = [max_length |-> Some(arg.max_length)]
  /\ ret = Panic
  /\ MainIdle

SpecTrimAscii == InitTrimAscii /\ [][CallTrim]_vars

\* inputs with multi-byte characters, every max_length that leaves room for
\* the ellipsis
InitTrim ==
  /\ pc = "call"
  /\ arg \in [input : StringsUpTo(TrimAlphabet, MaxLen),
              max_length : Len(Ellipsis)..MaxBudget]
             \cup TestCalls
  /\ config = [max_length |-> Some(arg.max_length)]
  /\ ret = Panic
  /\ MainIdle

SpecTrim == InitTrim /\ [][CallTrim]_vars

(***************************************************************************)
(* Claims about trim_to_length.                                            *)
(***************************************************************************)
\* the call under test has returned or panicked
Returned == pc = "returned"

\* the number of places where "..." occurs in s
CountEllipsis(s) ==
  Cardinality({i \in 1..Len(s) - 2 : SubSeq(s, i, i + 2) = Ellipsis})

\* C1: for every s longer than M with M >= 3, trim_to_length(s, M) returns a
\* string of length exactly M, whatever the parity of len(s) - M.
C1_ExactLength ==
  (Returned /\ Len(arg.input) > arg.max_length /\ arg.max_length >= 3)
    => (ret.ok /\ Len(ret.val) = arg.max_length)

\* C2: every s whose length in characters is <= max_length is returned
\* unchanged, also when its byte length exceeds max_length.
C2_IdentityWithinBudget ==
  (Returned /\ Len(arg.input) <= arg.max_length) => ret = Ok(arg.input)

\* C3: for every s longer than M with M >= 3 the output is
\* prefix + "..." + suffix with a non-empty prefix and a non-empty suffix of s,
\* and "..." occurs in it exactly once.
C3_BothEndsKept ==
  (Returned /\ Len(arg.input) > arg.max_length /\ arg.max_length >= 3)
    => /\ ret.ok
       /\ \E p, q \in 1..Len(arg.input) :
            ret.val = SubSeq(arg.input, 1, p) \o Ellipsis
                      \o SubSeq(arg.input, Len(arg.input) - q + 1, Len(arg.input))
       /\ CountEllipsis(ret.val) = 1

\* C4: for every valid Unicode input and every max_length both cut offsets
\* fall on a character boundary, so the call neither fails nor yields a
\* partial character.
C4_CutsOnCharBoundaries ==
  Returned
    => /\ ret.ok
       /\ ByteLen(arg.input) > arg.max_length
            => /\ is_char_boundary(arg.input, CutLo(arg.input, arg.max_length))
               /\ is_char_boundary(arg.input, CutHi(arg.input, arg.max_length))

\* C10: for every input and every max_length >= 0, also below 3,
\* trim_to_length returns a string: mid - diff/2 does not underflow and the
\* slice bounds satisfy 0 <= start-of-cut <= end-of-cut <= len(input).
C10_NoUnderflow ==
  Returned
    => /\ ret.ok
       /\ ByteLen(arg.input) > arg.max_length
            => /\ 0 <= CutLo(arg.input, arg.max_length)
               /\ CutLo(arg.input, arg.max_length) <= CutHi(arg.input, arg.max_length)
               /\ CutHi(arg.input, arg.max_length) <= ByteLen(arg.input)

(***************************************************************************)
(* Config (main.rs 29-49): every field is an Option.                       *)
(***************************************************************************)
SPOTIFY_ICON_AWESOME_FONTS == <<"&", "#", "x", "f", "1", "b", "c", ";">>
DEFAULT_COLOR == <<"w", "h", "i", "t", "e">>
DEFAULT_MAX_LENGTH == 45
DEFAULT_REMOVE_FEAT == FALSE
\* r"\(feat\. [\w* ]*\)"
DEFAULT_FEAT_REGEX ==
  <<"\\", "(", "f", "e", "a", "t", "\\", ".", " ",
    "[", "\\", "w", "*", " ", "]", "*", "\\", ")">>

\* Config::default
ConfigDefault ==
  [icon |-> Some(SPOTIFY_ICON_AWESOME_FONTS),
   color |-> Some(DEFAULT_COLOR),
   max_length |-> Some(DEFAULT_MAX_LENGTH),
   remove_feat |-> Some(DEFAULT_REMOVE_FEAT),
   feat_regex |-> Some(DEFAULT_FEAT_REGEX)]

(***************************************************************************)
(* The regex crate, as far as remove_feat uses it.  Three kinds of pattern *)
(* are modelled: the default pattern, a pattern of literal characters, and *)
(* a pattern that does not compile (an unclosed group).                    *)
(***************************************************************************)
\* "(": an unclosed group, which Regex::new rejects
UNCLOSED_GROUP == <<"(">>
\* "X": a pattern of one literal character
LITERAL_X == <<"X">>

RegexMeta == {"\\", "(", ")", "[", "]", "*", "+", "?", ".", "|", "^", "$", "{", "}"}

\* Regex::new: Ok(compiled pattern) or an error
RegexNew(pattern) ==
  IF pattern = DEFAULT_FEAT_REGEX
  THEN [ok |-> TRUE, kind |-> "feat", lit |-> <<>>]
  ELSE IF pattern # <<>> /\ \A i \in 1..Len(pattern) : pattern[i] \notin RegexMeta
  THEN [ok |-> TRUE, kind |-> "literal", lit |-> pattern]
  ELSE [ok |-> FALSE, kind |-> "error", lit |-> <<>>]

Letters ==
  {"a", "b", "c", "d", "e", "f", "g", "h", "i", "j", "k", "l", "m",
   "n", "o", "p", "q", "r", "s", "t", "u", "v", "w", "x", "y", "z",
   "A", "B", "C", "D", "E", "F", "G", "H", "I", "J", "K", "L", "M",
   "N", "O", "P", "Q", "R", "S", "T", "U", "V", "W", "X", "Y", "Z",
   "U+00E9"}
Digits == {"0", "1", "2", "3", "4", "5", "6", "7", "8", "9"}

\* \w of the regex crate (Unicode aware): letters, digits, underscore
WordChar(c) == c \in Letters \cup Digits \cup {"_"}

\* the class [\w* ]
FeatClass(c) == WordChar(c) \/ c = "*" \/ c = " "

\* the literal head of the default pattern: "(feat. "
FeatOpen == <<"(", "f", "e", "a", "t", ".", " ">>

RECURSIVE ClassRunEnd(_, _)
\* the index of the first character at or after i that is not in [\w* ]
\* (Len(s) + 1 when there is none): where the greedy [\w* ]* stops
ClassRunEnd(s, i) ==
  IF i > Len(s) \/ ~FeatClass(s[i]) THEN i ELSE ClassRunEnd(s, i + 1)

\* the index of the last character of the match that starts at i, or 0 when
\* the pattern does not match there.  [\w* ] excludes ")", so backtracking
\* the greedy run never finds another match.
MatchEnd(re, s, i) ==
  IF re.kind = "feat"
  THEN IF i + Len(FeatOpen) - 1 <= Len(s)
          /\ SubSeq(s, i, i + Len(FeatOpen) - 1) = FeatOpen
       THEN LET j == ClassRunEnd(s, i + Len(FeatOpen))
            IN IF j <= Len(s) /\ s[j] = ")" THEN j ELSE 0
       ELSE 0
  ELSE IF i + Len(re.lit) - 1 <= Len(s) /\ SubSeq(s, i, i + Len(re.lit) - 1) = re.lit
       THEN i + Len(re.lit) - 1
       ELSE 0

RECURSIVE ReplaceFrom(_, _, _)
\* Regex::replace_all(s, "") from index i on: leftmost matches, none overlapping
ReplaceFrom(re, s, i) ==
  IF i > Len(s) THEN <<>>
  ELSE IF MatchEnd(re, s, i) # 0 THEN ReplaceFrom(re, s, MatchEnd(re, s, i) + 1)
  ELSE <<s[i]>> \o ReplaceFrom(re, s, i + 1)

replace_all(re, s) == ReplaceFrom(re, s, 1)

\* char::is_whitespace
IsWhitespace(c) == c \in {" ", "\t"}

RECURSIVE trim_start(_)
trim_start(s) ==
  IF s # <<>> /\ IsWhitespace(Head(s)) THEN trim_start(Tail(s)) ELSE s

RECURSIVE trim_end(_)
trim_end(s) ==
  IF s # <<>> /\ IsWhitespace(s[Len(s)]) THEN trim_end(SubSeq(s, 1, Len(s) - 1)) ELSE s

\* str::trim
trim(s) == trim_end(trim_start(s))

(***************************************************************************)
(* remove_feat (main.rs 107-117).  Regex::new(..).unwrap() panics on a     *)
(* pattern that does not compile.                                          *)
(***************************************************************************)
\* remove_feat with the pattern compiled before the flag is looked at
remove_feat_compile_first(t, cfg) ==
  LET re == RegexNew(unwrap_or(cfg.feat_regex, DEFAULT_FEAT_REGEX))
  IN IF ~re.ok THEN Panic
     ELSE IF ~unwrap_or(cfg.remove_feat, FALSE) THEN Ok(t)
     ELSE Ok(trim(replace_all(re, t)))

\* remove_feat without the final trim
remove_feat_untrimmed(t, cfg) ==
  IF ~unwrap_or(cfg.remove_feat, FALSE)
  THEN Ok(t)
  ELSE LET re == RegexNew(unwrap_or(cfg.feat_regex, DEFAULT_FEAT_REGEX))
       IN IF ~re.ok THEN Panic ELSE Ok(replace_all(re, t))

remove_feat(t, cfg) ==
  IF ~unwrap_or(cfg.remove_feat, FALSE)
  THEN Ok(t)
  ELSE LET re == RegexNew(unwrap_or(cfg.feat_regex, DEFAULT_FEAT_REGEX))
       IN IF ~re.ok THEN Panic ELSE Ok(trim(replace_all(re, t)))

(***************************************************************************)
(* remove_feat on generated titles.  A title is a concatenation of at most *)
(* MaxPieces pieces; test_feat_1's title (main.rs 100) and the spec's      *)
(* whitespace example are added.                                           *)
(***************************************************************************)
RECURSIVE Concat(_)
Concat(ps) == IF ps = <<>> THEN <<>> ELSE Head(ps) \o Concat(Tail(ps))

TitlePieces == {FeatOpen, <<"X">>, <<" ">>, <<")">>, <<"-">>}

\* "1x1 (feat. Nova Twins)"
TITLE_1X1 ==
  <<"1", "x", "1", " ">> \o FeatOpen
  \o <<"N", "o", "v", "a", " ", "T", "w", "i", "n", "s", ")">>
\* "Song  (feat. X) "
TITLE_SONG == <<"S", "o", "n", "g", " ", " ">> \o FeatOpen \o <<"X", ")", " ">>

FeatTitles ==
  {Concat(ps) : ps \in StringsUpTo(TitlePieces, MaxPieces)} \cup {TITLE_1X1, TITLE_SONG}

FeatConfigs ==
  [icon : {NoneStr}, color : {NoneStr}, max_length : {NoneInt},
   remove_feat : {NoneBool, Some(FALSE), Some(TRUE)},
   feat_regex : {NoneStr, Some(DEFAULT_FEAT_REGEX), Some(UNCLOSED_GROUP), Some(LITERAL_X)}]

InitFeat ==
  /\ pc = "call"
  /\ arg \in [title : FeatTitles]
  /\ config \in FeatConfigs
  /\ ret = Panic
  /\ MainIdle

CallFeat ==
  /\ pc = "call"
  /\ ret' = remove_feat(arg.title, config)
  /\ pc' = "returned"
  /\ UNCHANGED <<env, config, metadata, title, contents, stdout, exit, arg>>

SpecFeat == InitFeat /\ [][CallFeat]_vars

(***************************************************************************)
(* Claims about remove_feat.                                               *)
(***************************************************************************)
\* C5: whenever config.remove_feat is false or absent, remove_feat returns the
\* title unchanged for every title and every feat_regex, also one that does
\* not compile: nothing fails and no whitespace is trimmed.
C5_IdentityWhenDisabled ==
  (Returned /\ (~config.remove_feat.some \/ ~config.remove_feat.val))
    => ret = Ok(arg.title)

\* a disabled call with a pattern that does not compile and a title that has
\* both a match and surrounding whitespace has returned
C5_Witness ==
  /\ Returned
  /\ ~config.remove_feat.some
  /\ config.feat_regex = Some(UNCLOSED_GROUP)
  /\ arg.title = <<" ">> \o FeatOpen \o <<"X", ")">>
  /\ ret.ok

\* s[i..j] is a match of "(feat. <names>)": the literal "(feat. ", then
\* characters of [\w* ] only, then ")"
IsFeatMatch(s, i, j) ==
  /\ 1 <= i /\ i + Len(FeatOpen) <= j /\ j <= Len(s)
  /\ \A k \in 1..Len(FeatOpen) : s[i + k - 1] = FeatOpen[k]
  /\ s[j] = ")"
  /\ \A k \in i + Len(FeatOpen)..j - 1 : FeatClass(s[k])

\* the positions of s that no match covers
Unmatched(s) ==
  {k \in 1..Len(s) :
     ~\E i \in 1..k, j \in k..Len(s) : IsFeatMatch(s, i, j)}

\* the characters of s at the positions K, in order
Restrict(s, K) ==
  [n \in 1..Cardinality(K) |->
     s[CHOOSE k \in K : Cardinality({m \in K : m <= k}) = n]]

\* s from its first to its last non-whitespace character
Stripped(s) ==
  LET NonWs == {k \in 1..Len(s) : ~IsWhitespace(s[k])}
  IN IF NonWs = {} THEN <<>>
     ELSE SubSeq(s, CHOOSE k \in NonWs : \A m \in NonWs : k <= m,
                    CHOOSE k \in NonWs : \A m \in NonWs : m <= k)

DefaultPatternEnabled ==
  /\ config.remove_feat = Some(TRUE)
  /\ config.feat_regex \in {NoneStr, Some(DEFAULT_FEAT_REGEX)}

\* C6: with remove_feat true and the default "(feat. <names>)" pattern the
\* result is the title with every match deleted, then stripped of leading and
\* trailing whitespace; "1x1 (feat. Nova Twins)" gives "1x1" and
\* "Song  (feat. X) " gives "Song".
C6_MatchesDeletedThenTrimmed ==
  (Returned /\ DefaultPatternEnabled)
    => /\ ret = Ok(Stripped(Restrict(arg.title, Unmatched(arg.title))))
       /\ arg.title = TITLE_1X1 => ret.val = <<"1", "x", "1">>
       /\ arg.title = TITLE_SONG => ret.val = <<"S", "o", "n", "g">>

\* the whitespace example has been cleaned
C6_Witness ==
  /\ Returned
  /\ DefaultPatternEnabled
  /\ arg.title = TITLE_SONG
  /\ ret = Ok(<<"S", "o", "n", "g">>)

(***************************************************************************)
(* html_escape::encode_text (called at main.rs 142): the escaping for      *)
(* text nodes, which rewrites '&', '<' and '>' and nothing else.           *)
(***************************************************************************)
AMP == <<"&", "a", "m", "p", ";">>
LT == <<"&", "l", "t", ";">>
GT == <<"&", "g", "t", ";">>

\* encode_text that leaves '&' alone
EncodeCharKeepAmp(c) ==
  CASE c = "<" -> LT
    [] c = ">" -> GT
    [] OTHER -> <<c>>

EncodeChar(c) ==
  CASE c = "&" -> AMP
    [] c = "<" -> LT
    [] c = ">" -> GT
    [] OTHER -> <<c>>

RECURSIVE encode_text(_)
encode_text(s) ==
  IF s = <<>> THEN <<>> ELSE EncodeChar(Head(s)) \o encode_text(Tail(s))

(***************************************************************************)
(* format_for_printing (main.rs 135-145):                                  *)
(* <span color="{color}">{icon} {displayable_text}</span>                  *)
(***************************************************************************)
SpanOpen == <<"<", "s", "p", "a", "n", " ", "c", "o", "l", "o", "r", "=", "\"">>
SpanClose == <<"<", "/", "s", "p", "a", "n", ">">>

\* everything format_for_printing writes before the text
SpanHead(cfg) ==
  SpanOpen \o unwrap_or(cfg.color, DEFAULT_COLOR) \o <<"\"", ">">>
  \o unwrap_or(cfg.icon, SPOTIFY_ICON_AWESOME_FONTS) \o <<" ">>

\* the line around an already truncated display string (142-144)
SpanAround(cfg, sized_display_str) ==
  IF ~sized_display_str.ok THEN Panic
  ELSE Ok(SpanHead(cfg) \o encode_text(sized_display_str.val) \o SpanClose)

format_for_printing(cfg, display_str) ==
  SpanAround(cfg, trim_to_length(display_str,
                                 unwrap_or(cfg.max_length, DEFAULT_MAX_LENGTH)))

(***************************************************************************)
(* format_for_printing on generated display strings.                       *)
(***************************************************************************)
MarkupAlphabet == {"a", "<", ">", "&", "\"", "'", "U+00E9"}

COLOR_RED == <<"r", "e", "d">>
ICON_EURO == <<"U+20AC">>

FormatConfigs ==
  [icon : {NoneStr, Some(ICON_EURO)}, color : {NoneStr, Some(COLOR_RED)},
   max_length : {NoneInt} \cup {Some(m) : m \in Len(Ellipsis)..MaxMarkupLen + 1},
   remove_feat : {NoneBool}, feat_regex : {NoneStr}]

InitFormat ==
  /\ pc = "call"
  /\ arg \in [display_str : StringsUpTo(MarkupAlphabet, MaxMarkupLen)]
  /\ config \in FormatConfigs
  /\ ret = Panic
  /\ MainIdle

CallFormat ==
  /\ pc = "call"
  /\ ret' = format_for_printing(config, arg.display_str)
  /\ pc' = "returned"
  /\ UNCHANGED <<env, config, metadata, title, contents, stdout, exit, arg>>

SpecFormat == InitFormat /\ [][CallFormat]_vars

(***************************************************************************)
(* Claims about format_for_printing.                                       *)
(***************************************************************************)
\* the text between the icon's space and the closing </span> of a line
TextPart(line, cfg) ==
  SubSeq(line, Len(SpanHead(cfg)) + 1, Len(line) - Len(SpanClose))

\* e occurs in s at index i
StartsAt(s, i, e) ==
  i + Len(e) - 1 <= Len(s) /\ SubSeq(s, i, i + Len(e) - 1) = e

\* the entity that starts at index i of s, or <<>>
EntityAt(s, i) ==
  IF StartsAt(s, i, AMP) THEN AMP
  ELSE IF StartsAt(s, i, LT) THEN LT
  ELSE IF StartsAt(s, i, GT) THEN GT
  ELSE <<>>

RECURSIVE Decode(_, _)
\* s from index i on with the entities &amp; &lt; &gt; read back
Decode(s, i) ==
  IF i > Len(s) THEN <<>>
  ELSE IF EntityAt(s, i) = AMP THEN <<"&">> \o Decode(s, i + Len(AMP))
  ELSE IF EntityAt(s, i) = LT THEN <<"<">> \o Decode(s, i + Len(LT))
  ELSE IF EntityAt(s, i) = GT THEN <<">">> \o Decode(s, i + Len(GT))
  ELSE <<s[i]>> \o Decode(s, i + 1)

\* no character of Raw occurs in s, and every '&' of s starts an entity
NoLiteral(s, Raw) ==
  \A i \in 1..Len(s) :
    /\ s[i] \notin Raw
    /\ s[i] = "&" => EntityAt(s, i) # <<>>

\* the line is head + text + </span>, and reading the entities of the text
\* back gives the truncated display string
LineCarriesTruncatedText ==
  /\ SubSeq(ret.val, 1, Len(SpanHead(config))) = SpanHead(config)
  /\ SubSeq(ret.val, Len(ret.val) - Len(SpanClose) + 1, Len(ret.val)) = SpanClose
  /\ Ok(Decode(TextPart(ret.val, config), 1))
       = trim_to_length(arg.display_str, unwrap_or(config.max_length, DEFAULT_MAX_LENGTH))

\* C7 as stated: the text part holds no literal '<', '>', '&', double quote
\* or single quote; each of them appears in escaped form.
C7_AllFiveEscaped ==
  (Returned /\ ret.ok)
    => /\ LineCarriesTruncatedText
       /\ NoLiteral(TextPart(ret.val, config), {"<", ">", "\"", "'"})

\* C7 as amended: the text part holds no literal '<' or '>', every '&' in it
\* starts one of &amp; &lt; &gt;, and reading these back gives the truncated
\* display string; double and single quotes are copied as they are.
C7_AngleAndAmpEscaped ==
  (Returned /\ ret.ok)
    => /\ LineCarriesTruncatedText
       /\ NoLiteral(TextPart(ret.val, config), {"<", ">"})
       /\ \A q \in {"\"", "'"} :
            Cardinality({i \in 1..Len(TextPart(ret.val, config)) :
                           TextPart(ret.val, config)[i] = q})
            = Cardinality({i \in 1..Len(Decode(TextPart(ret.val, config), 1)) :
                             Decode(TextPart(ret.val, config), 1)[i] = q})

\* a display string with '<', '&', '>' and a quote has been formatted
C7_Witness ==
  /\ Returned
  /\ ret.ok
  /\ arg.display_str = <<"<", "&", ">", "\"">>
  /\ TextPart(ret.val, config) = LT \o AMP \o GT \o <<"\"">>

(***************************************************************************)
(* The environment of one run of main: the session bus, the home           *)
(* directory and ~/.spotify-status, the player and its Metadata property.  *)
(***************************************************************************)
\* a Config with every field absent (an empty configuration file)
ConfigEmpty ==
  [icon |-> NoneStr, color |-> NoneStr, max_length |-> NoneInt,
   remove_feat |-> NoneBool, feat_regex |-> NoneStr]

\* what a configuration file that parses can hold
MainConfigs ==
  [icon : {NoneStr}, color : {NoneStr},
   max_length : {NoneInt, Some(MaxBudget)},
   remove_feat : {NoneBool, Some(TRUE)},
   feat_regex : {NoneStr, Some(UNCLOSED_GROUP)}]

\* home directory and configuration file
ConfigSources ==
  [home : {"none"}, file : {"absent"}, file_config : {ConfigEmpty}]
  \cup [home : {"some"}, file : {"absent", "unopenable", "unreadable", "malformed"},
        file_config : {ConfigEmpty}]
  \cup [home : {"some"}, file : {"parsed"}, file_config : MainConfigs]

\* "Tame Impala"
TAME_IMPALA == <<"T", "a", "m", "e", " ", "I", "m", "p", "a", "l", "a">>
\* an artist whose name reads like a feat suffix: "(feat. X)"
FEAT_ARTIST == FeatOpen \o <<"X", ")">>

MainTitles ==
  {TITLE_1X1, TITLE_SONG, <<"a", "<", "b", "&", "\"">>,
   <<"a", "U+00E9", "U+00E9", "U+00E9", "U+00E9">>}

\* the xesam:title entry of the Metadata map
TitleProps ==
  [kind : {"missing", "other"}, str : {<<>>}] \cup [kind : {"string"}, str : MainTitles]

\* the xesam:artist entry of the Metadata map
ArtistProps ==
  [kind : {"missing", "other"}, list : {<<>>}]
  \cup [kind : {"strings"},
        list : {<<>>, <<TAME_IMPALA>>, <<TAME_IMPALA, FEAT_ARTIST>>, <<FEAT_ARTIST>>}]

Envs ==
  [bus : {"ok", "no_session"}, source : ConfigSources, player : {"ok", "unavailable"},
   title : TitleProps, artist : ArtistProps]

(***************************************************************************)
(* resolve_config (main.rs 51-75): Err without a home directory, the       *)
(* defaults without a file, a panic (expect) when the file exists and      *)
(* cannot be opened, Err when it cannot be read or parsed.                 *)
(***************************************************************************)
\* resolve_config that falls back to the defaults when the file is malformed
resolve_config_lenient(source) ==
  IF source.home = "none" THEN [outcome |-> "err", config |-> ConfigEmpty]
  ELSE IF source.file = "absent" THEN [outcome |-> "ok", config |-> ConfigDefault]
  ELSE IF source.file = "unopenable" THEN [outcome |-> "panic", config |-> ConfigEmpty]
  ELSE IF source.file = "unreadable" THEN [outcome |-> "err", config |-> ConfigEmpty]
  ELSE IF source.file = "malformed" THEN [outcome |-> "ok", config |-> ConfigDefault]
  ELSE [outcome |-> "ok", config |-> source.file_config]

resolve_config(source) ==
  IF source.home = "none" THEN [outcome |-> "err", config |-> ConfigEmpty]
  ELSE IF source.file = "absent" THEN [outcome |-> "ok", config |-> ConfigDefault]
  ELSE IF source.file = "unopenable" THEN [outcome |-> "panic", config |-> ConfigEmpty]
  ELSE IF source.file = "unreadable" THEN [outcome |-> "err", config |-> ConfigEmpty]
  ELSE IF source.file = "malformed" THEN [outcome |-> "err", config |-> ConfigEmpty]
  ELSE [outcome |-> "ok", config |-> source.file_config]

(***************************************************************************)
(* main (main.rs 147-170), one action per statement that can fail.         *)
(* exit is "running", "ok" (Ok(())), "err" (an Err returned with ?) or     *)
(* "panic" (unwrap, expect, index or slice).                               *)
(***************************************************************************)
BY_OPEN == <<" ", "(", "b", "y", " ">>

Init ==
  /\ pc = "connect"
  /\ env \in Envs
  /\ config = ConfigEmpty
  /\ metadata = [got |-> FALSE,
                 title |-> [kind |-> "missing", str |-> <<>>],
                 artist |-> [kind |-> "missing", list |-> <<>>]]
  /\ title = <<>>
  /\ contents = <<>>
  /\ stdout = <<>>
  /\ exit = "running"
  /\ arg = <<>>
  /\ ret = Panic

\* the run ends without going further
Fail(how) ==
  /\ pc' = "exit"
  /\ exit' = how

\* Connection::new_session()?  (148)
Connect ==
  /\ pc = "connect"
  /\ IF env.bus = "ok" THEN pc' = "resolve_config" /\ exit' = exit ELSE Fail("err")
  /\ UNCHANGED <<env, config, metadata, title, contents, stdout, arg, ret>>

\* let config = resolve_config()?  (156)
ResolveConfig ==
  /\ pc = "resolve_config"
  /\ \E r \in {resolve_config(env.source)} :
       IF r.outcome = "ok"
       THEN pc' = "get_metadata" /\ exit' = exit /\ config' = r.config
       ELSE Fail(r.outcome) /\ config' = config
  /\ UNCHANGED <<env, metadata, title, contents, stdout, arg, ret>>

\* spotify_dbus_proxy.get(MPRIS_MEDIA_INTERFACE, MEDIA_METADATA_PROP)?  (158)
GetMetadata ==
  /\ pc = "get_metadata"
  /\ IF env.player = "ok"
     THEN /\ pc' = "title" /\ exit' = exit
          /\ metadata' = [got |-> TRUE, title |-> env.title, artist |-> env.artist]
     ELSE Fail("err") /\ metadata' = metadata
  /\ UNCHANGED <<env, config, title, contents, stdout, arg, ret>>

\* prop_cast(&metadata, TITLE_PROPERTY).unwrap()  (160)
ExtractTitle ==
  /\ pc = "title"
  /\ IF metadata.title.kind = "string"
     THEN pc' = "remove_feat" /\ exit' = exit
     ELSE Fail("panic")
  /\ UNCHANGED <<env, config, metadata, title, contents, stdout, arg, ret>>

\* let title = remove_feat(title_from_spotify, &config)  (161)
RemoveFeat ==
  /\ pc = "remove_feat"
  /\ \E r \in {remove_feat(metadata.title.str, config)} :
       IF r.ok
       THEN pc' = "artists" /\ exit' = exit /\ title' = r.val
       ELSE Fail("panic") /\ title' = title
  /\ UNCHANGED <<env, config, metadata, contents, stdout, arg, ret>>

\* prop_cast(&metadata, ARTISTS_PROPERTY).unwrap()  (163)
ExtractArtists ==
  /\ pc = "artists"
  /\ IF metadata.artist.kind = "strings"
     THEN pc' = "compose" /\ exit' = exit
     ELSE Fail("panic")
  /\ UNCHANGED <<env, config, metadata, title, contents, stdout, arg, ret>>

\* Compose with remove_feat applied to the composed text instead of the title
ComposeThenRemoveFeat ==
  /\ pc = "compose"
  /\ IF metadata.artist.list # <<>>
     THEN /\ pc' = "print" /\ exit' = exit
          /\ contents' = remove_feat(metadata.title.str \o BY_OPEN
                                     \o metadata.artist.list[1] \o <<")">>, config).val
     ELSE Fail("panic") /\ contents' = contents
  /\ UNCHANGED <<env, config, metadata, title, stdout, arg, ret>>

\* format!("{title} (by {})", artists[0])  (165); artists[0] panics on an
\* empty list
Compose ==
  /\ pc = "compose"
  /\ IF metadata.artist.list # <<>>
     THEN /\ pc' = "print" /\ exit' = exit
          /\ contents' = title \o BY_OPEN \o metadata.artist.list[1] \o <<")">>
     ELSE Fail("panic") /\ contents' = contents
  /\ UNCHANGED <<env, config, metadata, title, stdout, arg, ret>>

\* print!("{}", format_for_printing(&config, &contents))  (167)
PrintLine ==
  /\ pc = "print"
  /\ \E r \in {format_for_printing(config, contents)} :
       IF r.ok
       THEN pc' = "return" /\ exit' = exit /\ stdout' = Append(stdout, r.val)
       ELSE Fail("panic") /\ stdout' = stdout
  /\ UNCHANGED <<env, config, metadata, title, contents, arg, ret>>

\* Ok(())  (169)
ReturnOk ==
  /\ pc = "return"
  /\ Fail("ok")
  /\ UNCHANGED <<env, config, metadata, title, contents, stdout, arg, ret>>

Next ==
  \/ Connect
  \/ ResolveConfig
  \/ GetMetadata
  \/ ExtractTitle
  \/ RemoveFeat
  \/ ExtractArtists
  \/ Compose
  \/ PrintLine
  \/ ReturnOk

Spec == Init /\ [][Next]_vars

(***************************************************************************)
(* Claims about main.                                                      *)
(***************************************************************************)
\* the configuration the environment resolves to
EnvConfig == IF env.source.file = "parsed" THEN env.source.file_config ELSE ConfigDefault

EnvFeatEnabled == EnvConfig.remove_feat.some /\ EnvConfig.remove_feat.val

\* every step the claim lists succeeds in this environment
EverythingAvailable ==
  /\ env.bus = "ok"
  /\ env.source.home = "some"
  /\ env.source.file \in {"absent", "parsed"}
  /\ env.player = "ok"
  /\ env.title.kind = "string"
  /\ EnvFeatEnabled => EnvConfig.feat_regex # Some(UNCLOSED_GROUP)
  /\ env.artist.kind = "strings"
  /\ env.artist.list # <<>>

\* C8: standard output is written at most once, and only after the bus
\* connection, the configuration, the metadata lookup, the title, the feat
\* removal and the first artist have all succeeded; on every failure path the
\* run ends failed with nothing written.
C8_OutputOnlyOnSuccess ==
  /\ Len(stdout) <= 1
  /\ stdout # <<>> => (EverythingAvailable /\ pc \in {"return", "exit"})
  /\ exit \in {"err", "panic"} => stdout = <<>>
  /\ exit = "ok" => Len(stdout) = 1
  /\ ~EverythingAvailable => (stdout = <<>> /\ exit # "ok")
  /\ (pc = "exit") = (exit # "running")
  /\ pc # "exit" => ENABLED Next

\* a run with a title but an empty artist list has ended in a panic with
\* nothing written
C8_Witness ==
  /\ pc = "exit"
  /\ exit = "panic"
  /\ title = <<"1", "x", "1">>
  /\ metadata.artist = [kind |-> "strings", list |-> <<>>]
  /\ stdout = <<>>

\* the title the composed text has to start with
ExpectedTitle ==
  IF config.remove_feat.some /\ config.remove_feat.val
  THEN Stripped(Restrict(metadata.title.str, Unmatched(metadata.title.str)))
  ELSE metadata.title.str

\* C9: remove_feat is applied to the title alone and the text is composed
\* afterwards: it is remove_feat(title) + " (by " + first artist + ")", with
\* only the first artist and with an artist that matches the feat pattern left
\* intact; remove_feat = true, "1x1 (feat. Nova Twins)" and ["Tame Impala"]
\* give "1x1 (by Tame Impala)".
C9_FeatRemovedBeforeCompose ==
  contents # <<>>
    => /\ contents = ExpectedTitle \o BY_OPEN \o env.artist.list[1] \o <<")">>
       /\ (/\ env.title.str = TITLE_1X1
           /\ config.remove_feat = Some(TRUE)
           /\ env.artist.list = <<TAME_IMPALA>>)
            => contents = <<"1", "x", "1">> \o BY_OPEN \o TAME_IMPALA \o <<")">>

\* the end-to-end scenario has been composed
C9_Witness ==
  /\ env.title.str = TITLE_1X1
  /\ config.remove_feat = Some(TRUE)
  /\ env.artist.list = <<TAME_IMPALA>>
  /\ contents = <<"1", "x", "1", " ", "(", "b", "y", " ">> \o TAME_IMPALA \o <<")">>

====
